---- MODULE Spec2Model ----
(***************************************************************************)
(* LeafLens research pipeline (src/research): the dataset classes of       *)
(* dataset.py (metadata resolution, hash-based split assignment, class     *)
(* registry, split view, __getitem__), calculate_metrics of utils.py and   *)
(* the training loop of train_classifier.py.                               *)
(*                                                                         *)
(* The specifications sharing the module:                                  *)
(*   Spec           a dataset root on disk, interpreter processes that     *)
(*                  build PlantDiseaseDataset instances and index them;    *)
(*   SpecMetrics    calculate_metrics applied to bounded (y_true, y_pred); *)
(*   SpecCategorize PlantVillageDataset._categorize_diseases;              *)
(*   SpecWorkers    data-loader workers calling into shared datasets;      *)
(*   SpecIP102      IP102Dataset construction;                             *)
(*   SpecTransforms get_transforms;                                        *)
(*   SpecTraining   the epoch loop, checkpoints and histories of main.     *)
(***************************************************************************)
EXTENDS Integers, Sequences, FiniteSets, TLC

VARIABLES
    tree,        \* directory mode of the root: the set of paths under data_dir
    csv,         \* metadata.csv at the root: NoFile or its rows
    class_file,  \* class_info.json at the root: NoFile or its JSON object
    hashSeed,    \* the str-hash key of the running interpreter process
    datasets,    \* split -> the dataset instance of this process, or NoInstance
    result,      \* outcome of the last __init__ / __getitem__ / __len__ call
    y_true,      \* calculate_metrics: ground truth, N rows of C bits
    y_pred,      \* calculate_metrics: scores, N rows of C score levels
    shape,       \* calculate_metrics: <<N, C>> (ndarray.shape)
    report,      \* calculate_metrics: what the call produced
    annotations, \* annotations.json at the root: NoFile or its entries
    workers,     \* worker -> the dataset call it is executing and its position
    categorized, \* _categorize_diseases: the class list given and the outcome
    transforms,  \* get_transforms: the arguments given and the pipeline built
    trainer      \* main of train_classifier.py: its locals and the files written

dsVars == <<tree, csv, class_file, hashSeed, datasets, result>>
mxVars == <<y_true, y_pred, shape, report>>
xVars == <<annotations, workers, categorized, transforms, trainer>>
vars == <<tree, csv, class_file, hashSeed, datasets, result,
          y_true, y_pred, shape, report,
          annotations, workers, categorized, transforms, trainer>>

(***************************************************************************)
(* Bounds of the model.                                                    *)
(***************************************************************************)
MaxSeed == 1        \* hash keys 0..MaxSeed (0 = PYTHONHASHSEED=0, unkeyed)
HashBits == 15      \* width of Py_hash_t in the model (64 in CPython)
MaxRecords == 2     \* paths under the root / rows of metadata.csv
MaxCells == 6       \* N * C of the matrices given to calculate_metrics
NumWorkers == 2     \* data-loader workers calling into one dataset
MaxClasses == 2     \* class names handed to _categorize_diseases
MaxEpochs == 3      \* config['epochs'] is in 0..MaxEpochs
MaxInterval == 2    \* config['save_interval'] is in 0..MaxInterval

(***************************************************************************)
(* Names.  Python compares and hashes strings by code point; TLC cannot    *)
(* take a string apart, so every name used has its code points tabled.     *)
(***************************************************************************)
ClassDirs  == {"Wilt", "rust"}          \* class directories
HiddenDirs == {".git"}                  \* dot-prefixed directory
JpgFiles   == {"a.jpg", "e.jpg"}
OtherFiles == {"c.png"}
RootFiles  == {"a.jpg"}                 \* a plain file directly under the root
Splits     == {"train", "val", "test"}

CodePoints ==
       "Wilt"  :> <<87, 105, 108, 116>>
    @@ "rust"  :> <<114, 117, 115, 116>>
    @@ ".git"  :> <<46, 103, 105, 116>>
    @@ "a.jpg" :> <<97, 46, 106, 112, 103>>
    @@ "e.jpg" :> <<101, 46, 106, 112, 103>>
    @@ "c.png" :> <<99, 46, 112, 110, 103>>
    @@ "Healthy_blight" :> <<72, 101, 97, 108, 116, 104, 121, 95, 98, 108, 105, 103, 104, 116>>
    @@ "Leaf_Spot" :> <<76, 101, 97, 102, 95, 83, 112, 111, 116>>
    @@ "aphid" :> <<97, 112, 104, 105, 100>>
    @@ "Chlorosis" :> <<67, 104, 108, 111, 114, 111, 115, 105, 115>>
    @@ "frost" :> <<102, 114, 111, 115, 116>>
    @@ "healthy" :> <<104, 101, 97, 108, 116, 104, 121>>
    @@ "blight" :> <<98, 108, 105, 103, 104, 116>>
    @@ "spot" :> <<115, 112, 111, 116>>
    @@ "mildew" :> <<109, 105, 108, 100, 101, 119>>
    @@ "wilt" :> <<119, 105, 108, 116>>
    @@ "mite" :> <<109, 105, 116, 101>>
    @@ "bug" :> <<98, 117, 103>>
    @@ "beetle" :> <<98, 101, 101, 116, 108, 101>>
    @@ "deficiency" :> <<100, 101, 102, 105, 99, 105, 101, 110, 99, 121>>
    @@ "nutrient" :> <<110, 117, 116, 114, 105, 101, 110, 116>>
    @@ "chlorosis" :> <<99, 104, 108, 111, 114, 111, 115, 105, 115>>

\* An optional value (a file that may be absent, an instance that may not
\* have been built) is the empty tuple or the 1-tuple of its content.
NoFile == <<>>
File(content) == <<content>>
NoInstance == <<>>

Range(s) == {s[i] : i \in DOMAIN s}

\* str.__lt__: lexicographic order on code points
RECURSIVE SeqLess(_, _)
SeqLess(a, b) ==
    IF b = <<>> THEN FALSE
    ELSE IF a = <<>> THEN TRUE
    ELSE IF Head(a) # Head(b) THEN Head(a) < Head(b)
    ELSE SeqLess(Tail(a), Tail(b))

StrLess(s, t) == SeqLess(CodePoints[s], CodePoints[t])

\* sorted(iterable of str)
RECURSIVE sorted(_)
sorted(S) ==
    IF S = {} THEN <<>>
    ELSE LET m == CHOOSE x \in S : \A y \in S \ {x} : StrLess(x, y)
         IN  <<m>> \o sorted(S \ {m})

\* str.startswith('.')
StartsWithDot(s) == CodePoints[s] # <<>> /\ Head(CodePoints[s]) = 46

\* Path.glob('*.jpg'): the last four code points are ".jpg"
IsJpg(s) ==
    LET c == CodePoints[s]
    IN  Len(c) >= 4 /\ SubSeq(c, Len(c) - 3, Len(c)) = <<46, 106, 112, 103>>

(***************************************************************************)
(* hash(str).  CPython keys the string hash with a secret drawn once per   *)
(* interpreter process (PYTHONHASHSEED unset: random; =0: the zero key).   *)
(* The model computes the keyed FNV variant of Python/pyhash.c at HashBits *)
(* bits: x = prefix ^ (p[0] << 7); x = (1000003 * x) ^ p[i] for every i;   *)
(* x ^= len; x ^= suffix; -1 is reserved and becomes -2; the result is a   *)
(* signed integer.                                                         *)
(***************************************************************************)
HashModulus == 2 ^ HashBits

RECURSIVE Xor(_, _)
Xor(a, b) ==
    IF a = 0 THEN b
    ELSE IF b = 0 THEN a
    ELSE (((a % 2) + (b % 2)) % 2) + 2 * Xor(a \div 2, b \div 2)

\* the per-process secret derived from the seed (lcg_urandom of bootstrap_hash.c)
HashSecret(seed) ==
    IF seed = 0 THEN [prefix |-> 0, suffix |-> 0]
    ELSE LET lcg(x) == (((214013 % HashModulus) * x) + 2531011) % HashModulus
         IN  [prefix |-> lcg(seed), suffix |-> lcg(lcg(seed))]

RECURSIVE FnvLoop(_, _)
FnvLoop(x, p) ==
    IF p = <<>> THEN x
    ELSE FnvLoop(Xor(((1000003 % HashModulus) * x) % HashModulus, Head(p)), Tail(p))

hash(seed, name) ==
    LET p == CodePoints[name]
        k == HashSecret(seed)
        x0 == Xor(k.prefix, (Head(p) * 128) % HashModulus)
        x1 == Xor(Xor(FnvLoop(x0, p), Len(p)), k.suffix)
        x2 == IF x1 = HashModulus - 1 THEN HashModulus - 2 ELSE x1
    IN  IF p = <<>> THEN 0
        ELSE IF x2 >= HashModulus \div 2 THEN x2 - HashModulus ELSE x2

(***************************************************************************)
(* PlantDiseaseDataset._assign_split (dataset.py 73-82).  Python's % with  *)
(* a positive modulus is the floor modulus, as is TLA+'s.                  *)
(***************************************************************************)
_assign_split_swapped(seed, name) ==
    LET hash_val == hash(seed, name) % 100
    IN  IF hash_val < 70 THEN "train"
        ELSE IF hash_val < 85 THEN "test"
        ELSE "val"

_assign_split(seed, name) ==
    LET hash_val == hash(seed, name) % 100
    IN  IF hash_val < 70 THEN "train"
        ELSE IF hash_val < 85 THEN "val"
        ELSE "test"

(***************************************************************************)
(* The root directory.  A path is <<dir, file>> (a file inside an          *)
(* immediate subdirectory) or <<file>> (a plain file directly under the    *)
(* root); a directory exists when some path lies in it.                    *)
(***************************************************************************)
AllPaths ==
    (ClassDirs \X JpgFiles)
        \cup {<<"Wilt", f>> : f \in OtherFiles}
        \cup {<<d, "a.jpg">> : d \in HiddenDirs}
        \cup {<<f>> : f \in RootFiles}

RECURSIVE SubsetsUpTo(_, _)
SubsetsUpTo(S, n) ==
    IF n = 0 \/ S = {} THEN {{}}
    ELSE LET x == CHOOSE y \in S : TRUE
             rest == SubsetsUpTo(S \ {x}, n)
             less == SubsetsUpTo(S \ {x}, n - 1)
         IN  rest \cup {T \cup {x} : T \in less}

Trees == SubsetsUpTo(AllPaths, MaxRecords)

\* data_dir.iterdir(): the entries of the root, in the listing order of the
\* file system (fixed for an unchanged root; the model lists by name)
iterdir(t) == sorted({p[1] : p \in t})

is_dir(t, entry) == \E p \in t : Len(p) = 2 /\ p[1] = entry

\* class_dir.glob('*.jpg'), in listing order
glob_jpg(t, dir) ==
    sorted({p[2] : p \in {q \in t : Len(q) = 2 /\ q[1] = dir /\ IsJpg(q[2])}})

(***************************************************************************)
(* A pandas DataFrame: its column labels and its rows in index order.      *)
(* pd.DataFrame([]) has no columns at all; a DataFrame built from a        *)
(* non-empty list of dicts, or read from a CSV header, has them.           *)
(***************************************************************************)
Columns == {"image_path", "class_name", "split"}

DataFrame(rows) ==
    [columns |-> IF rows = <<>> THEN {} ELSE Columns, rows |-> rows]

read_csv(rows) == [columns |-> Columns, rows |-> rows]

RECURSIVE Flatten(_)
Flatten(ss) == IF ss = <<>> THEN <<>> ELSE Head(ss) \o Flatten(Tail(ss))

\* The content of data_dir as one value
Root(t, c, cf) == [tree |-> t, csv |-> c, class_file |-> cf]

\* PlantDiseaseDataset._create_metadata_from_structure (dataset.py 56-71)
_create_metadata_from_structure(self, seed) ==
    LET t == self.data_dir.tree
        entries == iterdir(t)
        of(class_dir) ==
            IF is_dir(t, class_dir) /\ ~StartsWithDot(class_dir)
            THEN LET files == glob_jpg(t, class_dir)
                 IN  [i \in 1..Len(files) |->
                        [image_path |-> <<class_dir, files[i]>>,
                         class_name |-> class_dir,
                         split |-> _assign_split(seed, files[i])]]
            ELSE <<>>
    IN  DataFrame(Flatten([i \in 1..Len(entries) |-> of(entries[i])]))

\* PlantDiseaseDataset._load_metadata (dataset.py 47-54)
_load_metadata(self, seed) ==
    IF self.data_dir.csv # NoFile THEN read_csv(self.data_dir.csv[1])
    ELSE _create_metadata_from_structure(self, seed)

(***************************************************************************)
(* A call either returns a value or raises.                                *)
(***************************************************************************)
Return(v) == [exc |-> "None", value |-> v]
Raise(e) == [exc |-> e, value |-> <<>>]

\* df[column]: KeyError when the frame has no such column
HasColumn(df, column) == column \in df.columns

(***************************************************************************)
(* The class registry.                                                     *)
(***************************************************************************)
\* {cls: idx for idx, cls in enumerate(names)}: a later duplicate overwrites
enumerate_dict(names) ==
    [c \in Range(names) |->
        (CHOOSE i \in DOMAIN names :
            names[i] = c /\ \A j \in DOMAIN names : names[j] = c => j <= i) - 1]

\* utils.create_class_info_json (utils.py 305-322): the object it dumps
create_class_info_json(class_names) ==
    [classes |-> class_names,
     class_to_idx |-> enumerate_dict(class_names),
     num_classes |-> Len(class_names)]

\* df[mask].reset_index(drop=True): the selected rows, in order, re-indexed
RECURSIVE SelectRows(_, _)
SelectRows(rows, want) ==
    IF rows = <<>> THEN <<>>
    ELSE (IF Head(rows).split = want THEN <<Head(rows)>> ELSE <<>>)
             \o SelectRows(Tail(rows), want)

ClassNamesOf(rows) == {rows[i].class_name : i \in DOMAIN rows}

\* the vocabulary taken from the requested split's rows only
_create_class_info_of_split(self) ==
    IF ~HasColumn(self.metadata, "class_name") THEN Raise("KeyError")
    ELSE LET unique_classes ==
                 sorted(ClassNamesOf(SelectRows(self.metadata.rows, self.split)))
         IN  Return([classes |-> unique_classes,
                     class_to_idx |-> enumerate_dict(unique_classes),
                     num_classes |-> Len(unique_classes)])

\* PlantDiseaseDataset._create_class_info (dataset.py 94-103)
_create_class_info(self) ==
    IF ~HasColumn(self.metadata, "class_name") THEN Raise("KeyError")
    ELSE LET unique_classes == sorted(ClassNamesOf(self.metadata.rows))
         IN  Return([classes |-> unique_classes,
                     class_to_idx |-> enumerate_dict(unique_classes),
                     num_classes |-> Len(unique_classes)])

\* PlantDiseaseDataset._load_class_info (dataset.py 84-92)
_load_class_info(self) ==
    IF self.data_dir.class_file # NoFile THEN Return(self.data_dir.class_file[1])
    ELSE _create_class_info(self)

\* PlantDiseaseDataset._filter_split_data (dataset.py 105-107)
_filter_split_data(self) ==
    IF ~HasColumn(self.metadata, "split") THEN Raise("KeyError")
    ELSE Return([columns |-> self.metadata.columns,
                 rows |-> SelectRows(self.metadata.rows, self.split)])

\* PlantDiseaseDataset.__init__ (dataset.py 31-45): the instance, or the
\* exception that leaves no instance
__init__(data_dir, seed, split) ==
    LET self0 == [data_dir |-> data_dir, split |-> split]
        metadata == _load_metadata(self0, seed)
        self1 == [data_dir |-> data_dir, split |-> split, metadata |-> metadata]
        class_info == _load_class_info(self1)
        data == _filter_split_data(self1)
    IN  IF class_info.exc # "None" THEN Raise(class_info.exc)
        ELSE IF data.exc # "None" THEN Raise(data.exc)
        ELSE Return([split |-> split,
                     metadata |-> metadata,
                     class_info |-> class_info.value,
                     data |-> data.value])

\* PlantDiseaseDataset.__len__ (dataset.py 109-110)
__len__(self) == Len(self.data.rows)

\* a positional lookup that rejects every negative idx
iloc_nonneg(df, idx) ==
    IF idx >= Len(df.rows) \/ idx < 0 THEN Raise("IndexError")
    ELSE Return(df.rows[idx + 1])

\* DataFrame.iloc[idx]: positional, a negative idx counts from the end
iloc(df, idx) ==
    LET n == Len(df.rows)
    IN  IF idx >= n \/ idx < -n THEN Raise("IndexError")
        ELSE IF idx >= 0 THEN Return(df.rows[idx + 1])
        ELSE Return(df.rows[n + idx + 1])

\* torch.zeros(n) with label[class_idx] = 1.0 (a negative index counts from
\* the end; outside [-n, n) the store raises IndexError)
one_hot(n, class_idx) ==
    IF class_idx >= n \/ class_idx < -n THEN Raise("IndexError")
    ELSE LET k == IF class_idx >= 0 THEN class_idx + 1 ELSE n + class_idx + 1
         IN  Return([i \in 1..n |-> IF i = k THEN 1 ELSE 0])

\* PlantDiseaseDataset._create_label (dataset.py 136-143)
_create_label(self, class_name) ==
    IF class_name \notin DOMAIN self.class_info.class_to_idx THEN Raise("KeyError")
    ELSE one_hot(self.class_info.num_classes,
                 self.class_info.class_to_idx[class_name])

\* PlantDiseaseDataset.__getitem__ (dataset.py 112-134).  dataset.py never
\* imports numpy, so the name np on line 121 is unbound: once the row is
\* fetched and the image opened, the call raises NameError and the lines
\* after it (transform, _create_label, return) are not reached.
\* Image files are taken to be present and decodable.
__getitem__(self, idx) ==
    LET row == iloc(self.data, idx)
    IN  IF row.exc # "None" THEN [exc |-> row.exc, row |-> <<>>, value |-> <<>>]
        ELSE [exc |-> "NameError", row |-> <<row.value>>, value |-> <<>>]

(***************************************************************************)
(* Spec: the dataset root and the processes working on it.                 *)
(***************************************************************************)
Seeds == 0..MaxSeed

BoundedSeq(S, n) == UNION {[1..k -> S] : k \in 0..n}

\* rows a metadata.csv may hold
CsvRows ==
    {[image_path |-> <<c, "a.jpg">>, class_name |-> c, split |-> s] :
        c \in ClassDirs, s \in {"train", "test"}}

\* lists of class names handed to create_class_info_json
ClassNameLists == BoundedSeq(ClassDirs, Cardinality(ClassDirs))

NoResult == [op |-> "none", split |-> "none", idx |-> 0,
             exc |-> "None", row |-> <<>>, value |-> <<>>]

NoDatasets == [s \in Splits |-> NoInstance]

\* the workers of a data loader over the datasets
Workers == 1..NumWorkers

IdleWorker == [pc |-> "idle", op |-> "none", split |-> "none", idx |-> 0,
               exc |-> "None", row |-> <<>>, value |-> <<>>]

NotCategorized == [classes |-> <<>>, exc |-> "idle", categories |-> <<>>]

NoTransforms == [split |-> "none", config |-> <<>>, exc |-> "idle",
                 pipeline |-> <<>>]

NoTraining == [pc |-> "idle"]

\* nothing but the generic dataset is in use
ExtrasIdle ==
    /\ annotations = NoFile
    /\ workers = [w \in Workers |-> IdleWorker]
    /\ categorized = NotCategorized
    /\ transforms = NoTransforms
    /\ trainer = NoTraining

MetricsIdle ==
    /\ y_true = <<>>
    /\ y_pred = <<>>
    /\ shape = <<0, 1>>
    /\ report = [exc |-> "idle"]

\* The root either carries a metadata.csv (the directory layout is then
\* never read) or is resolved from its directory layout.
Init ==
    /\ \/ csv = NoFile /\ tree \in Trees
       \/ csv \in {File(rows) : rows \in BoundedSeq(CsvRows, MaxRecords)} /\ tree = {}
    /\ class_file = NoFile
    /\ hashSeed \in Seeds
    /\ datasets = NoDatasets
    /\ result = NoResult
    /\ MetricsIdle
    /\ ExtrasIdle

\* A new interpreter process starts: it draws its hash key, and the
\* instances of the previous process are gone.
StartProcess(seed) ==
    /\ hashSeed' = seed
    /\ datasets' = NoDatasets
    /\ result' = NoResult
    /\ UNCHANGED <<tree, csv, class_file, mxVars, xVars>>

\* create_class_info_json(class_names, data_dir / 'class_info.json'), run
\* while no dataset instance is open on the root.
WriteClassInfo(class_names) ==
    /\ datasets = NoDatasets
    /\ class_file' = File(create_class_info_json(class_names))
    /\ result' = NoResult
    /\ UNCHANGED <<tree, csv, hashSeed, datasets, mxVars, xVars>>

\* PlantDiseaseDataset(data_dir, split)
Construct(split) ==
    LET r == __init__(Root(tree, csv, class_file), hashSeed, split)
    IN  /\ datasets' = IF r.exc = "None"
                       THEN [datasets EXCEPT ![split] = <<r.value>>]
                       ELSE datasets
        /\ result' = [op |-> "init", split |-> split, idx |-> 0,
                      exc |-> r.exc, row |-> <<>>, value |-> <<>>]
        /\ UNCHANGED <<tree, csv, class_file, hashSeed, mxVars, xVars>>

\* len(dataset)
Length(split) ==
    /\ datasets[split] # NoInstance
    /\ result' = [op |-> "len", split |-> split, idx |-> 0,
                  exc |-> "None", row |-> <<>>,
                  value |-> __len__(datasets[split][1])]
    /\ UNCHANGED <<tree, csv, class_file, hashSeed, datasets, mxVars, xVars>>

\* the indices tried on an instance of length L: -(L+1) .. L
Indices(self) == (-(__len__(self) + 1))..__len__(self)

\* dataset[idx]
GetItem(split, idx) ==
    /\ datasets[split] # NoInstance
    /\ idx \in Indices(datasets[split][1])
    /\ LET r == __getitem__(datasets[split][1], idx)
       IN  result' = [op |-> "getitem", split |-> split, idx |-> idx,
                      exc |-> r.exc, row |-> r.row, value |-> r.value]
    /\ UNCHANGED <<tree, csv, class_file, hashSeed, datasets, mxVars, xVars>>


Next ==
    \/ \E seed \in Seeds : StartProcess(seed)
    \/ \E names \in ClassNameLists : WriteClassInfo(names)
    \/ \E split \in Splits : Construct(split)
    \/ \E split \in Splits : Length(split)
    \/ \E split \in Splits, idx \in (-(MaxRecords + 1))..MaxRecords :
           GetItem(split, idx)

Spec == Init /\ [][Next]_vars

(***************************************************************************)
(* utils.calculate_metrics (utils.py 19-74).                               *)
(*                                                                         *)
(* Metric values are exact fractions <<numerator, denominator>> in lowest  *)
(* terms; <<0, 0>> is nan.  Scores are tenths, so 0.5 is 5.                *)
(***************************************************************************)
ThresholdTenths == 5
Scores == {3, 5, 7}

NaN == <<0, 0>>
Zero == <<0, 1>>
One == <<1, 1>>

RECURSIVE Gcd(_, _)
Gcd(a, b) == IF b = 0 THEN a ELSE Gcd(b, a % b)

Frac(n, d) == IF d = 0 THEN NaN ELSE LET g == Gcd(n, d) IN <<n \div g, d \div g>>

FracAdd(x, y) ==
    IF x = NaN \/ y = NaN THEN NaN
    ELSE Frac(x[1] * y[2] + y[1] * x[2], x[2] * y[2])

RECURSIVE FracSum(_)
FracSum(xs) == IF xs = <<>> THEN Zero ELSE FracAdd(Head(xs), FracSum(Tail(xs)))

\* np.mean / np.average of a list of values: nan when the list is empty
Mean(xs) ==
    IF xs = <<>> THEN NaN
    ELSE LET t == FracSum(xs) IN Frac(t[1], t[2] * Len(xs))

\* a ratio under zero_division=0
Ratio(n, d) == IF d = 0 THEN Zero ELSE Frac(n, d)

RECURSIVE SumSeq(_)
SumSeq(xs) == IF xs = <<>> THEN 0 ELSE Head(xs) + SumSeq(Tail(xs))

\* y_pred_binary = (y_pred > 0.5).astype(int)   (utils.py 31)
Binarize(yp) ==
    [i \in DOMAIN yp |-> [j \in DOMAIN yp[i] |->
        IF yp[i][j] > ThresholdTenths THEN 1 ELSE 0]]

Count(S) == Cardinality(S)

(***************************************************************************)
(* sklearn.metrics on these inputs.  A 0/1 matrix with two or more columns *)
(* is a multilabel indicator: the labels are the columns.  A matrix with a *)
(* single column is a binary target: it is flattened and the labels are    *)
(* the values (0, 1) that occur in y_true or y_pred.                       *)
(***************************************************************************)
\* per label: true positives, predicted positives, actual positives
LabelCounts(yt, yb, N, C) ==
    IF C >= 2
    THEN [j \in 1..C |->
            [tp   |-> Count({i \in 1..N : yt[i][j] = 1 /\ yb[i][j] = 1}),
             pred |-> Count({i \in 1..N : yb[i][j] = 1}),
             true |-> Count({i \in 1..N : yt[i][j] = 1})]]
    ELSE LET present == {v \in {0, 1} :
                            \E i \in 1..N : yt[i][1] = v \/ yb[i][1] = v}
             of(v) == [tp   |-> Count({i \in 1..N : yt[i][1] = v /\ yb[i][1] = v}),
                       pred |-> Count({i \in 1..N : yb[i][1] = v}),
                       true |-> Count({i \in 1..N : yt[i][1] = v})]
         IN  IF present = {0, 1} THEN <<of(0), of(1)>>
             ELSE IF present = {0} THEN <<of(0)>>
             ELSE IF present = {1} THEN <<of(1)>>
             ELSE <<>>

LabelPrecision(c) == Ratio(c.tp, c.pred)
LabelRecall(c) == Ratio(c.tp, c.true)
\* the F1 of a label under zero_division=1
LabelF1_zero_division_one(c) ==
    IF c.pred + c.true = 0 THEN One ELSE Frac(2 * c.tp, c.pred + c.true)

LabelF1(c) == Ratio(2 * c.tp, c.pred + c.true)

\* precision_recall_fscore_support(..., average='macro', zero_division=0)
\* (utils.py 34-36)
prfs_macro(yt, yb, N, C) ==
    LET cs == LabelCounts(yt, yb, N, C)
    IN  [precision |-> Mean([k \in DOMAIN cs |-> LabelPrecision(cs[k])]),
         recall    |-> Mean([k \in DOMAIN cs |-> LabelRecall(cs[k])]),
         f1        |-> Mean([k \in DOMAIN cs |-> LabelF1(cs[k])])]

\* precision_recall_fscore_support(..., average='micro', zero_division=0)
\* (utils.py 39-41)
prfs_micro(yt, yb, N, C) ==
    LET cs == LabelCounts(yt, yb, N, C)
        tp == SumSeq([k \in DOMAIN cs |-> cs[k].tp])
        pred == SumSeq([k \in DOMAIN cs |-> cs[k].pred])
        true == SumSeq([k \in DOMAIN cs |-> cs[k].true])
    IN  [precision |-> Ratio(tp, pred),
         recall    |-> Ratio(tp, true),
         f1        |-> Ratio(2 * tp, pred + true)]

\* accuracy_score(y_true, y_pred_binary) (utils.py 44): for a multilabel
\* indicator the fraction of rows predicted exactly, for a binary target
\* the fraction of equal entries
accuracy_score(yt, yb, N, C) ==
    IF C >= 2 THEN Frac(Count({i \in 1..N : yt[i] = yb[i]}), N)
    ELSE Frac(Count({i \in 1..N : yt[i][1] = yb[i][1]}), N)

\* a row counted as soon as one of its positions matches (np.any)
subset_accuracy_any(yt, yb, N, C) ==
    Frac(Count({i \in 1..N : \E j \in 1..C : yt[i][j] = yb[i][j]}), N)

\* np.mean(np.all(y_true == y_pred_binary, axis=1)) (utils.py 47)
subset_accuracy(yt, yb, N, C) ==
    Frac(Count({i \in 1..N : \A j \in 1..C : yt[i][j] = yb[i][j]}), N)

\* the differing positions counted per sample instead of per label bit
hamming_loss_per_sample(yt, yb, N, C) ==
    Frac(Count({<<i, j>> \in (1..N) \X (1..C) : yt[i][j] # yb[i][j]}), N)

\* np.mean(y_true != y_pred_binary) (utils.py 50)
hamming_loss(yt, yb, N, C) ==
    Frac(Count({<<i, j>> \in (1..N) \X (1..C) : yt[i][j] # yb[i][j]}), N * C)

\* roc_auc_score of one column holding both classes: the share of
\* (positive, negative) pairs ranked correctly, a tie counting one half
roc_auc_score(yt, yp, N, j) ==
    LET pos == {i \in 1..N : yt[i][j] = 1}
        neg == {i \in 1..N : yt[i][j] = 0}
        wins == Count({<<a, b>> \in pos \X neg : yp[a][j] > yp[b][j]})
        ties == Count({<<a, b>> \in pos \X neg : yp[a][j] = yp[b][j]})
    IN  Frac(2 * wins + ties, 2 * Count(pos) * Count(neg))

\* utils.py 53-61: the mean AUC over the columns of y_true that hold both
\* values, 0.0 when there is none.  The scores are finite numbers, for
\* which roc_auc_score of such a column does not raise.
RECURSIVE AucScores(_, _, _, _, _)
AucScores(yt, yp, N, C, i) ==
    IF i > C THEN <<>>
    ELSE (IF Count({yt[k][i] : k \in 1..N}) > 1
          THEN <<roc_auc_score(yt, yp, N, i)>> ELSE <<>>)
             \o AucScores(yt, yp, N, C, i + 1)

mean_auc(yt, yp, N, C) ==
    LET auc_scores == AucScores(yt, yp, N, C, 1)
    IN  IF auc_scores # <<>> THEN Mean(auc_scores) ELSE Zero

Raised(e) ==
    [exc |-> e, precision |-> NaN, recall |-> NaN, f1 |-> NaN,
     precision_micro |-> NaN, recall_micro |-> NaN, f1_micro |-> NaN,
     accuracy |-> NaN, subset_accuracy |-> NaN, hamming_loss |-> NaN,
     auc |-> NaN]

\* the dictionary returned on lines 63-74
MetricsOf(yt, yp, N, C) ==
    LET yb == Binarize(yp)
        macro == prfs_macro(yt, yb, N, C)
        micro == prfs_micro(yt, yb, N, C)
    IN  [exc |-> "None",
         precision |-> macro.precision,
         recall |-> macro.recall,
         f1 |-> macro.f1,
         precision_micro |-> micro.precision,
         recall_micro |-> micro.recall,
         f1_micro |-> micro.f1,
         accuracy |-> accuracy_score(yt, yb, N, C),
         subset_accuracy |-> subset_accuracy(yt, yb, N, C),
         hamming_loss |-> hamming_loss(yt, yb, N, C),
         auc |-> mean_auc(yt, yp, N, C)]

\* calculate_metrics: the outcomes the call can have.  For an empty batch
\* (N = 0) the sklearn calls of lines 34-44, which are outside the try,
\* either reject the input (ValueError: "Found array with 0 sample(s)") or,
\* in a build that lets it through, average over nothing; numpy's means of
\* lines 47 and 50 are then nan.
calculate_metrics(yt, yp, N, C) ==
    IF N = 0
    THEN {Raised("ValueError"),
          [Raised("None") EXCEPT !.auc = Zero]}
    ELSE {MetricsOf(yt, yp, N, C)}

(***************************************************************************)
(* SpecMetrics: one call of calculate_metrics on a bounded input.          *)
(***************************************************************************)
Shapes ==
    {<<n, c>> \in (0..MaxCells) \X (1..MaxCells) : n * c <= MaxCells}

NoReport == Raised("pending")

DatasetIdle ==
    /\ tree = {}
    /\ csv = NoFile
    /\ class_file = NoFile
    /\ hashSeed = 0
    /\ datasets = NoDatasets
    /\ result = NoResult

InitMetrics ==
    /\ shape \in Shapes
    /\ y_true \in [1..shape[1] -> [1..shape[2] -> {0, 1}]]
    /\ y_pred \in [1..shape[1] -> [1..shape[2] -> Scores]]
    /\ report = NoReport
    /\ DatasetIdle
    /\ ExtrasIdle

Compute ==
    /\ report = NoReport
    /\ report' \in calculate_metrics(y_true, y_pred, shape[1], shape[2])
    /\ UNCHANGED <<y_true, y_pred, shape, dsVars, xVars>>

NextMetrics == Compute

SpecMetrics == InitMetrics /\ [][NextMetrics]_vars

(***************************************************************************)
(* PlantVillageDataset._categorize_diseases (dataset.py 172-195).          *)
(*                                                                         *)
(* Line 190 reads  any(def in cls_lower for def in [...]) : def is a       *)
(* keyword of Python and cannot name a loop variable, so the compiler      *)
(* rejects the statement with SyntaxError and the function has no run in   *)
(* which a class is categorized.  (The compiler rejects it when dataset.py *)
(* is compiled; the other functions of the file are modelled as written.)  *)
(***************************************************************************)
_categorize_diseases(classes) == Raise("SyntaxError")

\* class names handed to the function
CategoryClasses ==
    ClassDirs \cup {"Healthy_blight", "Leaf_Spot", "aphid", "Chlorosis", "frost"}

InitCategorize ==
    /\ categorized \in
           {[classes |-> cs, exc |-> "pending", categories |-> <<>>] :
               cs \in BoundedSeq(CategoryClasses, MaxClasses)}
    /\ annotations = NoFile
    /\ workers = [w \in Workers |-> IdleWorker]
    /\ transforms = NoTransforms
    /\ trainer = NoTraining
    /\ DatasetIdle
    /\ MetricsIdle

\* self._categorize_diseases(classes)
Categorize ==
    /\ categorized.exc = "pending"
    /\ LET r == _categorize_diseases(categorized.classes)
       IN  categorized' = [categorized EXCEPT !.exc = r.exc,
                                              !.categories = r.value]
    /\ UNCHANGED <<dsVars, mxVars, annotations, workers, transforms, trainer>>

NextCategorize == Categorize

SpecCategorize == InitCategorize /\ [][NextCategorize]_vars

(***************************************************************************)
(* SpecWorkers: the three datasets of create_data_loaders                  *)
(* (train_classifier.py 86-105) and data-loader workers that call          *)
(* __len__ and __getitem__ on them concurrently.  A __getitem__ call is    *)
(* taken line by line, and the steps of different workers interleave       *)
(* freely.  Neither method assigns to an attribute of self or to a shared  *)
(* structure.                                                              *)
(***************************************************************************)
\* create_data_loaders: PlantDiseaseDataset for train, val and test
create_data_loaders(data_dir, seed) ==
    [s \in Splits |->
        LET r == __init__(data_dir, seed, s)
        IN  IF r.exc = "None" THEN <<r.value>> ELSE NoInstance]

\* the root is resolved from its directory layout
InitWorkers ==
    /\ csv = NoFile
    /\ tree \in Trees
    /\ class_file = NoFile
    /\ hashSeed \in Seeds
    /\ datasets = create_data_loaders(Root(tree, csv, class_file), hashSeed)
    /\ result = NoResult
    /\ workers = [w \in Workers |-> IdleWorker]
    /\ annotations = NoFile
    /\ categorized = NotCategorized
    /\ transforms = NoTransforms
    /\ trainer = NoTraining
    /\ MetricsIdle

Free(w) == workers[w].pc \in {"idle", "done"}

\* a worker calls len(dataset)  (dataset.py 109-110)
WorkerLen(w, split) ==
    /\ Free(w)
    /\ datasets[split] # NoInstance
    /\ workers' = [workers EXCEPT ![w] =
           [pc |-> "done", op |-> "len", split |-> split, idx |-> 0,
            exc |-> "None", row |-> <<>>,
            value |-> __len__(datasets[split][1])]]
    /\ UNCHANGED <<dsVars, mxVars, annotations, categorized, transforms, trainer>>

\* a worker enters dataset[idx]  (dataset.py 112) for an index of the
\* loader's sampler, which draws from range(len(dataset))
WorkerCall(w, split, idx) ==
    /\ Free(w)
    /\ datasets[split] # NoInstance
    /\ idx \in 0..(__len__(datasets[split][1]) - 1)
    /\ workers' = [workers EXCEPT ![w] =
           [pc |-> "iloc", op |-> "getitem", split |-> split, idx |-> idx,
            exc |-> "None", row |-> <<>>, value |-> <<>>]]
    /\ UNCHANGED <<dsVars, mxVars, annotations, categorized, transforms, trainer>>

\* the fetch taking the record out of the shared view
WorkerFetchRow_consuming(w) ==
    /\ workers[w].pc = "iloc"
    /\ LET self == datasets[workers[w].split][1]
           r == iloc(self.data, workers[w].idx)
           rest == SelectSeq(self.data.rows, LAMBDA x : <<x>> # <<r.value>>)
       IN  /\ workers' = [workers EXCEPT ![w] =
                  IF r.exc # "None"
                  THEN [@ EXCEPT !.pc = "done", !.exc = r.exc]
                  ELSE [@ EXCEPT !.pc = "open", !.row = <<r.value>>]]
           /\ datasets' = IF r.exc # "None" THEN datasets
                           ELSE [datasets EXCEPT ![workers[w].split] =
                                    <<[self EXCEPT !.data.rows = rest]>>]
    /\ UNCHANGED <<tree, csv, class_file, hashSeed, result,
                   mxVars, annotations, categorized, transforms, trainer>>

\* row = self.data.iloc[idx]  (dataset.py 114): a read of the view
WorkerFetchRow(w) ==
    /\ workers[w].pc = "iloc"
    /\ LET r == iloc(datasets[workers[w].split][1].data, workers[w].idx)
       IN  workers' = [workers EXCEPT ![w] =
               IF r.exc # "None"
               THEN [@ EXCEPT !.pc = "done", !.exc = r.exc]
               ELSE [@ EXCEPT !.pc = "open", !.row = <<r.value>>]]
    /\ UNCHANGED <<dsVars, mxVars, annotations, categorized, transforms, trainer>>

\* image = Image.open(self.data_dir / row['image_path']).convert('RGB')
\* (dataset.py 117-118); image files are taken to be present and decodable
WorkerOpenImage(w) ==
    /\ workers[w].pc = "open"
    /\ workers' = [workers EXCEPT ![w].pc = "array"]
    /\ UNCHANGED <<dsVars, mxVars, annotations, categorized, transforms, trainer>>

\* image = np.array(image)  (dataset.py 121): np is unbound, NameError
WorkerToArray(w) ==
    /\ workers[w].pc = "array"
    /\ workers' = [workers EXCEPT ![w].pc = "done", ![w].exc = "NameError"]
    /\ UNCHANGED <<dsVars, mxVars, annotations, categorized, transforms, trainer>>

NextWorkers ==
    \/ \E w \in Workers, split \in Splits : WorkerLen(w, split)
    \/ \E w \in Workers, split \in Splits, idx \in 0..(MaxRecords - 1) :
           WorkerCall(w, split, idx)
    \/ \E w \in Workers : WorkerFetchRow(w)
    \/ \E w \in Workers : WorkerOpenImage(w)
    \/ \E w \in Workers : WorkerToArray(w)

SpecWorkers == InitWorkers /\ [][NextWorkers]_vars

(***************************************************************************)
(* IP102Dataset (dataset.py 198-226).  annotations.json maps an image      *)
(* identifier to an object with the keys image_path, class_name, split and *)
(* optionally bbox; the file is held as the sequence of these objects in   *)
(* the order of the file (the identifiers are not used by the code).       *)
(* None is the empty tuple, a bounding box the 1-tuple of its corners.     *)
(***************************************************************************)
None == <<>>
Box == <<0, 0, 8, 8>>

AnnotationObjects ==
    {[image_path |-> <<"Wilt", "a.jpg">>, class_name |-> "Wilt", split |-> "train"],
     [image_path |-> <<"rust", "a.jpg">>, class_name |-> "rust", split |-> "val"]}
    \cup
    {[image_path |-> <<c, "a.jpg">>, class_name |-> c, split |-> "train",
      bbox |-> <<Box>>] : c \in ClassDirs}

\* ann.get(key, default)
dict_get(ann, key, default) == IF key \in DOMAIN ann THEN ann[key] ELSE default

\* the resolver going from a missing annotations.json straight to the
\* directory layout
IP102Dataset_load_metadata_no_csv(self, seed) ==
    IF self.data_dir.annotations # NoFile
    THEN LET annotations_ == self.data_dir.annotations[1]
             data == [k \in DOMAIN annotations_ |->
                         [image_path |-> annotations_[k].image_path,
                          class_name |-> annotations_[k].class_name,
                          split |-> annotations_[k].split,
                          bbox |-> dict_get(annotations_[k], "bbox", None)]]
         IN  [columns |-> IF data = <<>> THEN {} ELSE Columns \cup {"bbox"},
              rows |-> data]
    ELSE _create_metadata_from_structure(self, seed)

\* IP102Dataset._load_metadata (dataset.py 207-226)
IP102Dataset_load_metadata(self, seed) ==
    IF self.data_dir.annotations # NoFile
    THEN LET annotations_ == self.data_dir.annotations[1]
             data == [k \in DOMAIN annotations_ |->
                         [image_path |-> annotations_[k].image_path,
                          class_name |-> annotations_[k].class_name,
                          split |-> annotations_[k].split,
                          bbox |-> dict_get(annotations_[k], "bbox", None)]]
         IN  [columns |-> IF data = <<>> THEN {} ELSE Columns \cup {"bbox"},
              rows |-> data]
    ELSE _load_metadata(self, seed)

\* IP102Dataset.__init__ (dataset.py 203-205): PlantDiseaseDataset.__init__
\* with the overriding _load_metadata
IP102Dataset__init__(data_dir, seed, split) ==
    LET self0 == [data_dir |-> data_dir, split |-> split]
        metadata == IP102Dataset_load_metadata(self0, seed)
        self1 == [data_dir |-> data_dir, split |-> split, metadata |-> metadata]
        class_info == _load_class_info(self1)
        data == _filter_split_data(self1)
    IN  IF class_info.exc # "None" THEN Raise(class_info.exc)
        ELSE IF data.exc # "None" THEN Raise(data.exc)
        ELSE Return([split |-> split,
                     metadata |-> metadata,
                     class_info |-> class_info.value,
                     data |-> data.value])

\* the root of an IP102 dataset
IP102Root(t, c, cf, ann) ==
    [tree |-> t, csv |-> c, class_file |-> cf, annotations |-> ann]

InitIP102 ==
    /\ \/ csv = NoFile /\ tree \in Trees
       \/ csv \in {File(rows) : rows \in BoundedSeq(CsvRows, MaxRecords)} /\ tree = {}
    /\ annotations \in
           {NoFile} \cup {File(es) : es \in BoundedSeq(AnnotationObjects, MaxRecords)}
    /\ class_file = NoFile
    /\ hashSeed \in Seeds
    /\ datasets = NoDatasets
    /\ result = NoResult
    /\ workers = [w \in Workers |-> IdleWorker]
    /\ categorized = NotCategorized
    /\ transforms = NoTransforms
    /\ trainer = NoTraining
    /\ MetricsIdle

\* IP102Dataset(data_dir, split)
ConstructIP102(split) ==
    LET r == IP102Dataset__init__(IP102Root(tree, csv, class_file, annotations),
                                  hashSeed, split)
    IN  /\ datasets' = IF r.exc = "None"
                       THEN [datasets EXCEPT ![split] = <<r.value>>]
                       ELSE datasets
        /\ result' = [op |-> "init", split |-> split, idx |-> 0,
                      exc |-> r.exc, row |-> <<>>, value |-> <<>>]
        /\ UNCHANGED <<tree, csv, class_file, hashSeed, mxVars, xVars>>

NextIP102 == \E split \in Splits : ConstructIP102(split)

SpecIP102 == InitIP102 /\ [][NextIP102]_vars

(***************************************************************************)
(* get_transforms (dataset.py 229-289).  A pipeline is the list given to   *)
(* A.Compose; a step is its transform class with the arguments written in  *)
(* the code.  Probabilities and limits written as decimals are in tenths   *)
(* (p=0.5 is 5; a step without p is applied always, p = 10), the           *)
(* normalisation constants in thousandths.                                 *)
(***************************************************************************)
DefaultImageSize == 224
Always == 10

Resize(height, width) ==
    [op |-> "Resize", height |-> height, width |-> width, p |-> Always]
HorizontalFlip == [op |-> "HorizontalFlip", p |-> 5]
RandomRotate90 == [op |-> "RandomRotate90", p |-> 5]
RandomBrightnessContrast ==
    [op |-> "RandomBrightnessContrast",
     brightness_limit |-> 2, contrast_limit |-> 2, p |-> 5]
HueSaturationValue ==
    [op |-> "HueSaturationValue",
     hue_shift_limit |-> 20, sat_shift_limit |-> 30, val_shift_limit |-> 20,
     p |-> 5]
RandomResizedCrop(height, width) ==
    [op |-> "RandomResizedCrop", height |-> height, width |-> width,
     scale |-> <<8, 10>>, ratio |-> <<8, 12>>, p |-> 5]
CoarseDropout ==
    [op |-> "CoarseDropout", max_holes |-> 8, max_height |-> 32,
     max_width |-> 32, min_holes |-> 1, min_height |-> 8, min_width |-> 8,
     p |-> 3]
Normalize ==
    [op |-> "Normalize", mean |-> <<485, 456, 406>>, std |-> <<229, 224, 225>>,
     p |-> Always]
ToTensorV2 == [op |-> "ToTensorV2", p |-> Always]

\* the training pipeline built whatever the split
get_transforms_always_train(split, config) ==
    LET image_size == dict_get(config, "image_size", DefaultImageSize)
    IN  <<Resize(image_size, image_size),
          HorizontalFlip,
          RandomRotate90,
          RandomBrightnessContrast,
          HueSaturationValue,
          RandomResizedCrop(image_size, image_size),
          CoarseDropout,
          Normalize,
          ToTensorV2>>

get_transforms(split, config) ==
    LET image_size == dict_get(config, "image_size", DefaultImageSize)
    IN  IF split = "train"
        THEN <<Resize(image_size, image_size),
               HorizontalFlip,
               RandomRotate90,
               RandomBrightnessContrast,
               HueSaturationValue,
               RandomResizedCrop(image_size, image_size),
               CoarseDropout,
               Normalize,
               ToTensorV2>>
        ELSE <<Resize(image_size, image_size),
               Normalize,
               ToTensorV2>>

\* the split names given: the three splits and a name that is none of them
SplitArguments == Splits \cup {"eval"}

\* configuration dictionaries, with and without the keys the code reads
ImageSizes == {128, 256, 384}
DatasetTypes == {"plantvillage", "ip102", "custom"}
Configs ==
    {[num_workers |-> NumWorkers]}
    \cup {[num_workers |-> NumWorkers, image_size |-> n] : n \in ImageSizes}
    \cup {[num_workers |-> NumWorkers, dataset_type |-> d] : d \in DatasetTypes}
    \cup {[num_workers |-> NumWorkers, dataset_type |-> d, image_size |-> n] :
              d \in DatasetTypes, n \in ImageSizes}

InitTransforms ==
    /\ transforms \in
           {[split |-> s, config |-> <<c>>, exc |-> "pending", pipeline |-> <<>>] :
               s \in SplitArguments, c \in Configs}
    /\ annotations = NoFile
    /\ workers = [w \in Workers |-> IdleWorker]
    /\ categorized = NotCategorized
    /\ trainer = NoTraining
    /\ DatasetIdle
    /\ MetricsIdle

\* transform = get_transforms(split, config)
GetTransforms ==
    /\ transforms.exc = "pending"
    /\ transforms' =
           [transforms EXCEPT
               !.exc = "None",
               !.pipeline = get_transforms(transforms.split, transforms.config[1])]
    /\ UNCHANGED <<dsVars, mxVars, annotations, workers, categorized, trainer>>

NextTransforms == GetTransforms

SpecTransforms == InitTransforms /\ [][NextTransforms]_vars

(***************************************************************************)
(* The training loop of main (train_classifier.py 254-333).  trainer holds *)
(* main's locals from line 255 on and the log of the files written:        *)
(*   pc, exc          the statement control is at, and the exception that  *)
(*                    escaped from it ("None" while main is running);      *)
(*   config           config['epochs'] and config['save_interval'];        *)
(*   range_next       the position of the iterator of range(epochs);       *)
(*   epoch            the loop variable, unbound before the first pass;    *)
(*   scheduler        scheduler.last_epoch, what scheduler.state_dict()    *)
(*                    puts into a checkpoint;                              *)
(*   writes           the calls of torch.save, in the order made.          *)
(* A metric value v stands for v / 10.                                     *)
(***************************************************************************)
F1Levels == {0, 5, 10}

\* the dictionaries train_epoch and validate_epoch can hand back: the keys
\* of calculate_metrics that main reads, and 'loss' (lines 167, 198)
TrainMetrics ==
    {[loss |-> 10 - f, f1 |-> f, precision |-> f, recall |-> f] : f \in {5, 10}}

ValMetrics ==
    {[loss |-> 10 - f, f1 |-> f, precision |-> IF f = 5 THEN 10 ELSE f, recall |-> f] :
        f \in F1Levels}

\* train_epoch (136-169): the loader, the model or calculate_metrics raises
\* (np.vstack of no batch is a ValueError), or the metrics come back
train_epoch == {Raise("Exception")} \cup {Return(m) : m \in TrainMetrics}

\* validate_epoch (172-200), likewise
validate_epoch == {Raise("Exception")} \cup {Return(m) : m \in ValMetrics}

\* lines 255-257, for a loaded configuration
main(epochs, save_interval) ==
    [pc |-> "for",
     exc |-> "None",
     config |-> [epochs |-> epochs, save_interval |-> save_interval],
     range_next |-> 0,
     epoch |-> None,
     scheduler |-> 0,
     best_val_f1 |-> 0,
     train_history |-> [loss |-> <<>>, f1 |-> <<>>, precision |-> <<>>, recall |-> <<>>],
     val_history |-> [loss |-> <<>>, f1 |-> <<>>, precision |-> <<>>, recall |-> <<>>],
     train_metrics |-> None,
     val_metrics |-> None,
     test_metrics |-> None,
     writes |-> <<>>,
     exported |-> FALSE]

HistoryKeys == {"loss", "f1", "precision", "recall"}

\* the three file names main saves checkpoints under
best_model == <<"best_model.pth">>
final_model == <<"final_model.pth">>
checkpoint_epoch(n) == <<"checkpoint_epoch_", n, ".pth">>

\* utils.save_model_checkpoint: the checkpoint handed to torch.save
save_model_checkpoint(scheduler, epoch, metrics, filepath) ==
    [filepath |-> filepath,
     epoch |-> epoch,
     scheduler_state_dict |-> scheduler,
     metrics |-> metrics]

InitTraining ==
    /\ \E epochs \in 0..MaxEpochs, save_interval \in 0..MaxInterval :
           trainer = main(epochs, save_interval)
    /\ annotations = NoFile
    /\ workers = [w \in Workers |-> IdleWorker]
    /\ categorized = NotCategorized
    /\ transforms = NoTransforms
    /\ DatasetIdle
    /\ MetricsIdle

Running(pc) == trainer.pc = pc /\ trainer.exc = "None"

\* for epoch in range(config['epochs']):
ForEpoch ==
    /\ Running("for")
    /\ trainer' =
           IF trainer.range_next < trainer.config.epochs
           THEN [trainer EXCEPT
                    !.epoch = <<trainer.range_next>>,
                    !.range_next = @ + 1,
                    !.pc = "train"]
           ELSE [trainer EXCEPT !.pc = "plot"]
    /\ UNCHANGED <<dsVars, mxVars, annotations, workers, categorized, transforms>>

\* train_metrics = train_epoch(...)
TrainEpoch ==
    /\ Running("train")
    /\ \E r \in train_epoch :
           trainer' =
               IF r.exc # "None"
               THEN [trainer EXCEPT !.exc = r.exc]
               ELSE [trainer EXCEPT !.train_metrics = <<r.value>>, !.pc = "validate"]
    /\ UNCHANGED <<dsVars, mxVars, annotations, workers, categorized, transforms>>

\* val_metrics = validate_epoch(...)
ValidateEpoch ==
    /\ Running("validate")
    /\ \E r \in validate_epoch :
           trainer' =
               IF r.exc # "None"
               THEN [trainer EXCEPT !.exc = r.exc]
               ELSE [trainer EXCEPT !.val_metrics = <<r.value>>, !.pc = "scheduler"]
    /\ UNCHANGED <<dsVars, mxVars, annotations, workers, categorized, transforms>>

\* scheduler.step()
SchedulerStep ==
    /\ Running("scheduler")
    /\ trainer' = [trainer EXCEPT !.scheduler = @ + 1, !.pc = "history"]
    /\ UNCHANGED <<dsVars, mxVars, annotations, workers, categorized, transforms>>

\* for key in train_history: append train_metrics[key], val_metrics[key]
UpdateHistory ==
    /\ Running("history")
    /\ trainer' =
           [trainer EXCEPT
               !.train_history =
                   [key \in HistoryKeys |-> Append(@[key], trainer.train_metrics[1][key])],
               !.val_history =
                   [key \in HistoryKeys |-> Append(@[key], trainer.val_metrics[1][key])],
               !.pc = "best"]
    /\ UNCHANGED <<dsVars, mxVars, annotations, workers, categorized, transforms>>

\* SaveBest with the comparison of line 282 weakened to >=
SaveBest_or_equal ==
    /\ Running("best")
    /\ trainer' =
           IF trainer.val_metrics[1].f1 >= trainer.best_val_f1
           THEN [trainer EXCEPT
                    !.best_val_f1 = trainer.val_metrics[1].f1,
                    !.writes =
                        Append(@, save_model_checkpoint(trainer.scheduler, trainer.epoch[1],
                                                        trainer.val_metrics[1], best_model)),
                    !.pc = "regular"]
           ELSE [trainer EXCEPT !.pc = "regular"]
    /\ UNCHANGED <<dsVars, mxVars, annotations, workers, categorized, transforms>>

\* if val_metrics['f1'] > best_val_f1: ... save best_model.pth
SaveBest ==
    /\ Running("best")
    /\ trainer' =
           IF trainer.val_metrics[1].f1 > trainer.best_val_f1
           THEN [trainer EXCEPT
                    !.best_val_f1 = trainer.val_metrics[1].f1,
                    !.writes =
                        Append(@, save_model_checkpoint(trainer.scheduler, trainer.epoch[1],
                                                        trainer.val_metrics[1], best_model)),
                    !.pc = "regular"]
           ELSE [trainer EXCEPT !.pc = "regular"]
    /\ UNCHANGED <<dsVars, mxVars, annotations, workers, categorized, transforms>>

\* SaveRegular with the condition of line 291 taken on epoch, not epoch + 1
SaveRegular_zero_based ==
    /\ Running("regular")
    /\ trainer' =
           IF trainer.config.save_interval = 0
           THEN [trainer EXCEPT !.exc = "ZeroDivisionError"]
           ELSE IF trainer.epoch[1] % trainer.config.save_interval = 0
           THEN [trainer EXCEPT
                    !.writes =
                        Append(@, save_model_checkpoint(trainer.scheduler, trainer.epoch[1],
                                                        trainer.val_metrics[1],
                                                        checkpoint_epoch(trainer.epoch[1] + 1))),
                    !.pc = "for"]
           ELSE [trainer EXCEPT !.pc = "for"]
    /\ UNCHANGED <<dsVars, mxVars, annotations, workers, categorized, transforms>>

\* if (epoch + 1) % config['save_interval'] == 0: ... save checkpoint_epoch_N
\* (a save interval of 0 is a ZeroDivisionError), then back to the for
SaveRegular ==
    /\ Running("regular")
    /\ trainer' =
           IF trainer.config.save_interval = 0
           THEN [trainer EXCEPT !.exc = "ZeroDivisionError"]
           ELSE IF (trainer.epoch[1] + 1) % trainer.config.save_interval = 0
           THEN [trainer EXCEPT
                    !.writes =
                        Append(@, save_model_checkpoint(trainer.scheduler, trainer.epoch[1],
                                                        trainer.val_metrics[1],
                                                        checkpoint_epoch(trainer.epoch[1] + 1))),
                    !.pc = "for"]
           ELSE [trainer EXCEPT !.pc = "for"]
    /\ UNCHANGED <<dsVars, mxVars, annotations, workers, categorized, transforms>>

\* plot_training_history(train_history, val_history, output_dir)
PlotHistory ==
    /\ Running("plot")
    /\ trainer' = [trainer EXCEPT !.pc = "test"]
    /\ UNCHANGED <<dsVars, mxVars, annotations, workers, categorized, transforms>>

\* test_metrics = validate_epoch(model, test_loader, ...)
TestEvaluate ==
    /\ Running("test")
    /\ \E r \in validate_epoch :
           trainer' =
               IF r.exc # "None"
               THEN [trainer EXCEPT !.exc = r.exc]
               ELSE [trainer EXCEPT !.test_metrics = <<r.value>>, !.pc = "final"]
    /\ UNCHANGED <<dsVars, mxVars, annotations, workers, categorized, transforms>>

\* save_model_checkpoint(..., config['epochs']-1, test_metrics, final_model.pth)
SaveFinal ==
    /\ Running("final")
    /\ trainer' =
           [trainer EXCEPT
               !.writes =
                   Append(@, save_model_checkpoint(trainer.scheduler, trainer.config.epochs - 1,
                                                   trainer.test_metrics[1], final_model)),
               !.pc = "export"]
    /\ UNCHANGED <<dsVars, mxVars, annotations, workers, categorized, transforms>>

\* torch.onnx.export(...), after which main returns
ExportOnnx ==
    /\ Running("export")
    /\ trainer' = [trainer EXCEPT !.exported = TRUE, !.pc = "done"]
    /\ UNCHANGED <<dsVars, mxVars, annotations, workers, categorized, transforms>>

NextTraining ==
    \/ ForEpoch
    \/ TrainEpoch
    \/ ValidateEpoch
    \/ SchedulerStep
    \/ UpdateHistory
    \/ SaveBest
    \/ SaveRegular
    \/ PlotHistory
    \/ TestEvaluate
    \/ SaveFinal
    \/ ExportOnnx

SpecTraining == InitTraining /\ [][NextTraining]_vars

(***************************************************************************)
(* Properties of the dataset classes, checked under Spec.                  *)
(***************************************************************************)
Built == {s \in Splits : datasets[s] # NoInstance}
inst(s) == datasets[s][1]

\* the self a resolver method runs on, for the root as it is
SelfOf(t, c, cf) == [data_dir |-> Root(t, c, cf), split |-> "train"]

\* C1: split determinism.  For a fixed set of image files the synthesis
\* path gives every file the same split in every run: across any step,
\* also one that starts a new interpreter process (with whatever hash key
\* it draws), the records synthesized from the unchanged root are the same.
C1_SplitDeterminism ==
    [][_create_metadata_from_structure(SelfOf(tree', csv', class_file'), hashSeed')
         = _create_metadata_from_structure(SelfOf(tree, csv, class_file), hashSeed)]_vars

\* the root holds no class subdirectory (hidden directories and plain files
\* at most)
NoClassDirs == \A p \in tree : Len(p) = 2 => StartsWithDot(p[1])

\* C4: empty dataset.  On a root without class subdirectories and without
\* metadata.csv, constructing the dataset raises nothing; the metadata is
\* empty, the view of the requested split has length 0, and the registry
\* derived from it has num_classes = 0.
C4_EmptyDatasetConstructs ==
    (result.op = "init" /\ csv = NoFile /\ NoClassDirs) =>
        /\ result.exc = "None"
        /\ datasets[result.split] # NoInstance
        /\ inst(result.split).metadata.rows = <<>>
        /\ __len__(inst(result.split)) = 0
        /\ class_file = NoFile => inst(result.split).class_info.num_classes = 0

\* C6 as stated: get(index) succeeds only for 0 <= index < L, and every
\* other index, every negative one included, raises the indexing error.
C6_IndexRangeNonNegative ==
    result.op = "getitem" =>
        LET L == __len__(inst(result.split))
        IN  /\ result.exc = "None" => result.idx \in 0..(L - 1)
            /\ result.idx \notin 0..(L - 1) =>
                   result.exc = "IndexError" /\ result.value = <<>>

\* C6 amended: get(index) raises the indexing error, and yields no sample,
\* exactly for index < -L or index >= L; an index in [-L, 0) addresses the
\* record L + index, an index in [0, L) the record index; get succeeds for
\* no index outside [-L, L).
C6_IndexRange ==
    result.op = "getitem" =>
        LET self == inst(result.split)
            L == __len__(self)
            i == result.idx
        IN  /\ result.exc = "None" => i \in (-L)..(L - 1)
            /\ result.exc = "IndexError" <=> i \notin (-L)..(L - 1)
            /\ result.exc = "IndexError" => result.row = <<>> /\ result.value = <<>>
            /\ i \in 0..(L - 1) => result.row = <<self.data.rows[i + 1]>>
            /\ i \in (-L)..(-1) => result.row = <<self.data.rows[L + i + 1]>>

\* C6 witness: a negative index within [-L, 0) was used and fetched a record
C6_NegativeIndexFetched ==
    /\ result.op = "getitem"
    /\ result.idx < 0
    /\ result.idx >= -(__len__(inst(result.split)))
    /\ result.row # <<>>

\* classes lists, in ascending code-point order and without repetition,
\* exactly the class names of rows, and class_to_idx numbers them 0, 1, ...
IsSortedVocabularyOf(class_info, rows) ==
    /\ Range(class_info.classes) = ClassNamesOf(rows)
    /\ \A i, j \in DOMAIN class_info.classes :
           i < j => StrLess(class_info.classes[i], class_info.classes[j])
    /\ DOMAIN class_info.class_to_idx = ClassNamesOf(rows)
    /\ \A i \in DOMAIN class_info.classes :
           class_info.class_to_idx[class_info.classes[i]] = i - 1
    /\ class_info.num_classes = Len(class_info.classes)

\* C7 as stated: the train, val and test instances over one root hold the
\* same registry, and it is the sorted set of the distinct class_name values
\* of all metadata records.
C7_VocabularyIsSortedMetadata ==
    \A s \in Built :
        /\ \A t \in Built : inst(s).class_info = inst(t).class_info
        /\ IsSortedVocabularyOf(inst(s).class_info, inst(s).metadata.rows)

\* C7 amended: the instances over one root hold the same registry, so a
\* class name has the same index in every split; the registry is the content
\* of class_info.json when that file exists, and otherwise the sorted set of
\* the distinct class_name values of all metadata records.
C7_VocabularyStability ==
    \A s \in Built :
        /\ \A t \in Built : inst(s).class_info = inst(t).class_info
        /\ class_file # NoFile => inst(s).class_info = class_file[1]
        /\ class_file = NoFile =>
               IsSortedVocabularyOf(inst(s).class_info, inst(s).metadata.rows)

\* C7 witness: without class_info.json, two instances whose own splits hold
\* different class names
C7_SplitsWithDifferentClasses ==
    /\ class_file = NoFile
    /\ \E s, t \in Built :
           ClassNamesOf(inst(s).data.rows) # ClassNamesOf(inst(t).data.rows)

\* C8: registry well-formedness.  In every constructed dataset class_to_idx
\* is a bijection from the class names onto 0..num_classes-1, num_classes is
\* the number of classes, and every class_name of a metadata record is a key.
C8_RegistryWellFormed ==
    \A s \in Built :
        LET ci == inst(s).class_info
            keys == DOMAIN ci.class_to_idx
        IN  /\ keys = Range(ci.classes)
            /\ ci.num_classes = Cardinality(keys)
            /\ ci.num_classes = Len(ci.classes)
            /\ {ci.class_to_idx[k] : k \in keys} = 0..(ci.num_classes - 1)
            /\ \A k1, k2 \in keys :
                   ci.class_to_idx[k1] = ci.class_to_idx[k2] => k1 = k2
            /\ ClassNamesOf(inst(s).metadata.rows) \subseteq keys

\* C9: one-hot invariant.  For every index in [0, length()) get returns a
\* label of length num_classes whose only 1.0 sits at the registry index of
\* the record's class_name, all other entries being 0.0.
C9_OneHotLabel ==
    (result.op = "getitem"
        /\ result.idx \in 0..(__len__(inst(result.split)) - 1)) =>
        LET self == inst(result.split)
            row == self.data.rows[result.idx + 1]
            label == result.value
        IN  /\ result.exc = "None"
            /\ Len(label) = self.class_info.num_classes
            /\ row.class_name \in DOMAIN self.class_info.class_to_idx
            /\ \A k \in 1..Len(label) :
                   label[k] = IF k = self.class_info.class_to_idx[row.class_name] + 1
                              THEN 1 ELSE 0

\* C10: split bucket mapping.  On the synthesis path the bucket of a file,
\* hash(file name) mod 100, lies in 0..99, and the record is 'train' iff the
\* bucket is in [0,70), 'val' iff in [70,85), 'test' iff in [85,100); the
\* train, val and test views are pairwise disjoint and together hold every
\* synthesized record.
C10_SplitBuckets ==
    csv = NoFile =>
        /\ \A s \in Built :
               \A i \in DOMAIN inst(s).metadata.rows :
                   LET r == inst(s).metadata.rows[i]
                       b == hash(hashSeed, r.image_path[2]) % 100
                   IN  /\ b \in 0..99
                       /\ r.split = "train" <=> b \in 0..69
                       /\ r.split = "val" <=> b \in 70..84
                       /\ r.split = "test" <=> b \in 85..99
        /\ Built = Splits =>
               LET view(s) == Range(inst(s).data.rows)
                   all == Range(inst("train").metadata.rows)
               IN  /\ \A s, t \in Splits : s # t => view(s) \cap view(t) = {}
                   /\ UNION {view(s) : s \in Splits} = all
                   /\ __len__(inst("train")) + __len__(inst("val"))
                          + __len__(inst("test"))
                        = Len(inst("train").metadata.rows)

\* C10 witness: the three views are built on the synthesis path and the
\* records fall into more than one of them
C10_RecordsInSeveralSplits ==
    /\ csv = NoFile
    /\ Built = Splits
    /\ \E s, t \in Splits :
           s # t /\ __len__(inst(s)) > 0 /\ __len__(inst(t)) > 0

\* the files under the root that are images: JPEG and PNG files
ImageFiles == JpgFiles \cup OtherFiles

\* C11: directory synthesis.  Without metadata.csv, every image file directly
\* inside a non-hidden immediate subdirectory of the root yields exactly one
\* record, with that subdirectory as class_name and the path relative to
\* the root as image_path; hidden subdirectories and plain files of the
\* root yield none.
C11_DirectorySynthesis ==
    csv = NoFile =>
        \A s \in Built :
            LET rows == inst(s).metadata.rows
            IN  /\ {rows[i].image_path : i \in DOMAIN rows}
                       = {p \in tree : /\ Len(p) = 2
                                       /\ ~StartsWithDot(p[1])
                                       /\ p[2] \in ImageFiles}
                /\ \A i, j \in DOMAIN rows :
                       rows[i].image_path = rows[j].image_path => i = j
                /\ \A i \in DOMAIN rows :
                       rows[i].class_name = rows[i].image_path[1]

\* C12: SplitView.  Constructing the dataset for a split s gives a view that
\* holds exactly the metadata records whose split is s, in metadata order
\* and indexed 0..length()-1; length() is their number, and a split that
\* matches no record gives an empty view.
C12_SplitView ==
    result.op = "init" =>
        /\ result.exc = "None"
        /\ datasets[result.split] # NoInstance
        /\ LET self == inst(result.split)
               meta == self.metadata.rows
               view == self.data.rows
               hits == {i \in DOMAIN meta : meta[i].split = result.split}
               nth(k) == CHOOSE i \in hits :
                             Cardinality({j \in hits : j <= i}) = k
           IN  /\ __len__(self) = Cardinality(hits)
               /\ DOMAIN view = 1..Cardinality(hits)
               /\ \A k \in DOMAIN view : view[k] = meta[nth(k)]

(***************************************************************************)
(* Properties of concurrent access, checked under SpecWorkers.             *)
(***************************************************************************)
\* C18: statelessness under concurrent access.  Every step of a worker's
\* length() or get(index) call, under every interleaving with the calls of
\* the other workers, leaves the metadata, the class registry and the
\* SplitView of every dataset unchanged, and a call that has finished has
\* the outcome (length, or fetched record and label, or exception) that a
\* sequential call on the dataset, which is still as constructed, has.
C18_Statelessness ==
    [][/\ \A s \in Splits :
              /\ (datasets'[s] = NoInstance) <=> (datasets[s] = NoInstance)
              /\ datasets[s] # NoInstance =>
                     /\ datasets'[s][1].metadata = datasets[s][1].metadata
                     /\ datasets'[s][1].class_info = datasets[s][1].class_info
                     /\ datasets'[s][1].data = datasets[s][1].data
       /\ \A w \in Workers :
              workers'[w].pc = "done" =>
                  LET c == workers'[w]
                      self == datasets[c.split][1]
                      seq == __getitem__(self, c.idx)
                  IN  IF c.op = "len"
                      THEN c.value = __len__(self)
                      ELSE /\ c.exc = seq.exc
                           /\ c.row = seq.row
                           /\ c.value = seq.value]_vars

\* C18 witness: two workers are inside get(index) for the same record of
\* the same dataset at the same time, each holding the fetched record
C18_TwoCallsInFlight ==
    \E w1, w2 \in Workers :
        /\ w1 # w2
        /\ workers[w1].pc = "open"
        /\ workers[w2].pc = "array"
        /\ workers[w1].split = workers[w2].split
        /\ workers[w1].idx = workers[w2].idx
        /\ workers[w1].row # <<>>
        /\ workers[w1].row = workers[w2].row

(***************************************************************************)
(* Properties of IP102Dataset, checked under SpecIP102.                    *)
(***************************************************************************)
\* C19: resolver precedence and fallback.  The metadata of an IP102 dataset
\* is built from annotations.json when that file exists: one record per
\* entry, in file order, with the entry's image_path, class_name and split
\* and its bbox (None when the entry has none).  When the file is absent
\* the metadata is what the generic resolver gives for the same root: the
\* rows of metadata.csv if that exists, the directory-synthesized records
\* otherwise.
C19_ResolverFallback ==
    /\ (result.op = "init" /\ annotations = NoFile) =>
           LET generic == __init__(Root(tree, csv, class_file), hashSeed,
                                   result.split)
           IN  /\ result.exc = generic.exc
               /\ generic.exc = "None" => result.split \in Built
    /\ \A s \in Built :
        LET meta == inst(s).metadata
            generic == __init__(Root(tree, csv, class_file), hashSeed, s)
        IN  /\ annotations # NoFile =>
                   LET entries == annotations[1]
                   IN  /\ Len(meta.rows) = Len(entries)
                       /\ \A k \in DOMAIN entries :
                              /\ meta.rows[k].image_path = entries[k].image_path
                              /\ meta.rows[k].class_name = entries[k].class_name
                              /\ meta.rows[k].split = entries[k].split
                              /\ meta.rows[k].bbox =
                                     IF "bbox" \in DOMAIN entries[k]
                                     THEN entries[k].bbox ELSE None
            /\ annotations = NoFile =>
                   /\ generic.exc = "None"
                   /\ meta = generic.value.metadata
                   /\ csv # NoFile => meta.rows = csv[1]
                   /\ csv = NoFile =>
                          {meta.rows[i].image_path : i \in DOMAIN meta.rows}
                              = {q \in tree : /\ Len(q) = 2
                                              /\ ~StartsWithDot(q[1])
                                              /\ IsJpg(q[2])}

\* C19 witness: without annotations.json, an IP102 dataset was built over
\* a root whose metadata.csv has rows
C19_FellBackToMetadataFile ==
    /\ annotations = NoFile
    /\ csv # NoFile
    /\ \E s \in Built : inst(s).metadata.rows # <<>>

(***************************************************************************)
(* Properties of get_transforms, checked under SpecTransforms.             *)
(***************************************************************************)
\* a step that samples whether it is applied
Stochastic(step) == step.p < Always

\* C20: augmentation pipeline order.  For every split the pipeline starts
\* with resize and ends with normalize followed by the layout conversion;
\* for a split other than 'train' it is exactly these three steps, none of
\* them stochastic; for 'train' the six stochastic steps (flip p=0.5,
\* rotate90 p=0.5, brightness/contrast p=0.5, hue/saturation/value p=0.5,
\* resized crop p=0.5, coarse dropout p=0.3) lie in this order between
\* resize and normalize.
C20_PipelineOrder ==
    transforms.exc = "None" =>
        LET pl == transforms.pipeline
            n == Len(pl)
            ops == [k \in 1..n |-> pl[k].op]
            ps == [k \in 1..n |-> pl[k].p]
        IN  /\ n >= 3
            /\ ops[1] = "Resize" /\ ~Stochastic(pl[1])
            /\ ops[n - 1] = "Normalize" /\ ~Stochastic(pl[n - 1])
            /\ ops[n] = "ToTensorV2" /\ ~Stochastic(pl[n])
            /\ transforms.split # "train" =>
                   /\ ops = <<"Resize", "Normalize", "ToTensorV2">>
                   /\ \A k \in 1..n : ~Stochastic(pl[k])
            /\ transforms.split = "train" =>
                   /\ ops = <<"Resize", "HorizontalFlip", "RandomRotate90",
                              "RandomBrightnessContrast", "HueSaturationValue",
                              "RandomResizedCrop", "CoarseDropout",
                              "Normalize", "ToTensorV2">>
                   /\ ps = <<10, 5, 5, 5, 5, 5, 3, 10, 10>>

\* C20 witness: the pipeline of the 'train' split was built, with its six
\* stochastic steps
C20_TrainPipelineBuilt ==
    /\ transforms.exc = "None"
    /\ transforms.split = "train"
    /\ Cardinality({k \in DOMAIN transforms.pipeline :
                        Stochastic(transforms.pipeline[k])}) = 6

(***************************************************************************)
(* Properties of _categorize_diseases, checked under SpecCategorize.       *)
(***************************************************************************)
\* str.lower() on code points
lower(cp) == [i \in DOMAIN cp |-> IF cp[i] \in 65..90 THEN cp[i] + 32 ELSE cp[i]]

\* keyword in cls_lower
ContainsKeyword(cls, keyword) ==
    LET hay == lower(CodePoints[cls])
        needle == CodePoints[keyword]
    IN  \E i \in 0..(Len(hay) - Len(needle)) :
            SubSeq(hay, i + 1, i + Len(needle)) = needle

Categories == {"healthy", "disease", "pest", "deficiency", "environmental"}

\* the category the ordered rules give a class name: the first rule that
\* matches decides
CategoryByRules(cls) ==
    IF ContainsKeyword(cls, "healthy") THEN "healthy"
    ELSE IF \E k \in {"blight", "spot", "mildew", "rust", "wilt"} :
                ContainsKeyword(cls, k) THEN "disease"
    ELSE IF \E k \in {"aphid", "mite", "bug", "beetle"} :
                ContainsKeyword(cls, k) THEN "pest"
    ELSE IF \E k \in {"deficiency", "nutrient", "chlorosis"} :
                ContainsKeyword(cls, k) THEN "deficiency"
    ELSE "environmental"

\* C13: categorization.  _categorize_diseases returns the five categories,
\* and every class name given stands in exactly one of them, the one of the
\* first matching rule (case-insensitive containment, healthy first, then
\* disease, pest, deficiency, else environmental); a name containing both
\* 'healthy' and 'blight' is in healthy only.
C13_Categorization ==
    categorized.exc \notin {"idle", "pending"} =>
        /\ categorized.exc = "None"
        /\ DOMAIN categorized.categories = Categories
        /\ \A c \in Categories :
               Range(categorized.categories[c])
                   = {cls \in Range(categorized.classes) : CategoryByRules(cls) = c}
        /\ "Healthy_blight" \in Range(categorized.classes) =>
               /\ "Healthy_blight" \in Range(categorized.categories["healthy"])
               /\ "Healthy_blight" \notin Range(categorized.categories["disease"])

(***************************************************************************)
(* Properties of calculate_metrics, checked under SpecMetrics.             *)
(***************************************************************************)
Computed == report.exc \in {"None", "ValueError"}
NSamples == shape[1]
NClasses == shape[2]

\* the prediction binarized at 0.5 is y_true, on a non-empty batch
ExactMatch == Computed /\ NSamples >= 1 /\ Binarize(y_pred) = y_true

\* columns of y_true with at least one positive example
PositiveColumns == {j \in 1..NClasses : \E i \in 1..NSamples : y_true[i][j] = 1}

\* C2 as stated: on an exact match of a non-empty batch subset_accuracy is
\* 1.0, hamming_loss 0.0 and macro f1 1.0, also when a class has no
\* positive example.
C2_ExactMatchAllOnes ==
    ExactMatch =>
        /\ report.exc = "None"
        /\ report.subset_accuracy = One
        /\ report.hamming_loss = Zero
        /\ report.f1 = One

\* C2 amended: on an exact match of a non-empty batch subset_accuracy is
\* 1.0 and hamming_loss 0.0; with two or more classes macro f1 is the share
\* of classes that have a positive example (1.0 only when every class has
\* one; 2/3 for y_true = [[1,0,0],[0,1,0]]); a single column is scored as a
\* binary target and gives 1.0.
C2_ExactMatch ==
    ExactMatch =>
        /\ report.exc = "None"
        /\ report.subset_accuracy = One
        /\ report.hamming_loss = Zero
        /\ NClasses >= 2 =>
               report.f1 = Frac(Cardinality(PositiveColumns), NClasses)
        /\ NClasses = 1 => report.f1 = One
        /\ y_true = <<<<1, 0, 0>>, <<0, 1, 0>>>> => report.f1 = <<2, 3>>

\* C2 witness: the exact match on y_true = [[1,0,0],[0,1,0]] was scored
C2_ExampleScored ==
    /\ ExactMatch
    /\ report.exc = "None"
    /\ y_true = <<<<1, 0, 0>>, <<0, 1, 0>>>>

\* C3: the accuracy field is the mean over all N x C label comparisons,
\* the share of matching label bits, which is 1 - hamming_loss.
C3_AccuracyIsPerLabel ==
    (Computed /\ report.exc = "None" /\ NSamples >= 1) =>
        /\ report.accuracy =
               Frac(Cardinality({<<i, j>> \in (1..NSamples) \X (1..NClasses) :
                                    y_true[i][j] = Binarize(y_pred)[i][j]}),
                    NSamples * NClasses)
        /\ FracAdd(report.accuracy, report.hamming_loss) = One

\* the degenerate inputs: an empty batch, a batch whose samples all carry
\* the same label vector, a column without true or predicted positives
Degenerate ==
    \/ NSamples = 0
    \/ \A i, k \in 1..NSamples : y_true[i] = y_true[k]
    \/ \E j \in 1..NClasses :
           \A i \in 1..NSamples : y_true[i][j] = 0 /\ Binarize(y_pred)[i][j] = 0

\* C5: calculate_metrics never raises on degenerate inputs; it returns a
\* complete report in which every metric is a number (an undefined one 0).
C5_NoRaiseOnDegenerate ==
    (Computed /\ Degenerate) =>
        /\ report.exc = "None"
        /\ \A v \in {report.precision, report.recall, report.f1,
                     report.precision_micro, report.recall_micro,
                     report.f1_micro, report.accuracy,
                     report.subset_accuracy, report.hamming_loss,
                     report.auc} : v # NaN

\* the positions (sample, class) where y_true differs from the prediction
\* binarized at 0.5
WrongBits ==
    {<<i, j>> \in (1..NSamples) \X (1..NClasses) :
        y_true[i][j] # (IF y_pred[i][j] > ThresholdTenths THEN 1 ELSE 0)}

\* C14: Hamming loss.  The hamming_loss returned is the number of (sample,
\* class) positions where y_true differs from the binarized prediction,
\* divided by N*C; y_true = [[1,0],[0,1]] with predictions binarizing to
\* [[0,0],[0,1]] gives 0.25.
C14_HammingLoss ==
    (Computed /\ NSamples >= 1) =>
        /\ report.exc = "None"
        /\ report.hamming_loss # NaN
        /\ report.hamming_loss[1] * (NSamples * NClasses)
               = Cardinality(WrongBits) * report.hamming_loss[2]
        /\ (y_true = <<<<1, 0>>, <<0, 1>>>>
               /\ Binarize(y_pred) = <<<<0, 0>>, <<0, 1>>>>) =>
               report.hamming_loss = <<1, 4>>

\* C14 witness: the scenario with one wrong bit out of four was scored
C14_OneOfFourWrong ==
    /\ Computed
    /\ y_true = <<<<1, 0>>, <<0, 1>>>>
    /\ Binarize(y_pred) = <<<<0, 0>>, <<0, 1>>>>
    /\ Cardinality(WrongBits) = 1

\* the classes whose y_true column holds both a 0 and a 1
QualifyingClasses ==
    {j \in 1..NClasses : {y_true[i][j] : i \in 1..NSamples} = {0, 1}}

\* C15: AUC degeneracy.  calculate_metrics raises no error; auc is the
\* arithmetic mean of the AUCs of the classes whose y_true column holds both
\* a 0 and a 1, and 0.0 when no class qualifies (e.g. a single all-zero
\* column, whatever y_pred is).
C15_AucDegeneracy ==
    Computed =>
        LET q == QualifyingClasses
            nth(k) == CHOOSE j \in q : Cardinality({m \in q : m <= j}) = k
        IN  /\ report.exc = "None"
            /\ q = {} => report.auc = Zero
            /\ q # {} =>
                   report.auc =
                       Mean([k \in 1..Cardinality(q) |->
                               roc_auc_score(y_true, y_pred, NSamples, nth(k))])

\* per class j: true positives, predicted positives and actual positives of
\* the prediction binarized at 0.5
PredictedBit(i, j) == IF y_pred[i][j] > ThresholdTenths THEN 1 ELSE 0
TruePositives(j) ==
    Cardinality({i \in 1..NSamples : y_true[i][j] = 1 /\ PredictedBit(i, j) = 1})
PredictedPositives(j) ==
    Cardinality({i \in 1..NSamples : PredictedBit(i, j) = 1})
ActualPositives(j) ==
    Cardinality({i \in 1..NSamples : y_true[i][j] = 1})

\* a per-class ratio, 0 when its denominator is 0
GuardedRatio(n, d) == IF d = 0 THEN Zero ELSE Frac(n, d)

\* C16: macro averaging.  precision, recall and f1 are each the arithmetic
\* mean over all C classes of the per-class value of the binarized
\* prediction; a class whose ratio has a zero denominator contributes 0 and
\* is neither skipped nor an error.
C16_MacroAveraging ==
    Computed =>
        /\ report.exc = "None"
        /\ report.precision =
               Mean([j \in 1..NClasses |->
                       GuardedRatio(TruePositives(j), PredictedPositives(j))])
        /\ report.recall =
               Mean([j \in 1..NClasses |->
                       GuardedRatio(TruePositives(j), ActualPositives(j))])
        /\ report.f1 =
               Mean([j \in 1..NClasses |->
                       GuardedRatio(2 * TruePositives(j),
                                    PredictedPositives(j) + ActualPositives(j))])

\* the rows whose binarized prediction equals y_true in every position
ExactRows ==
    {i \in 1..NSamples : \A j \in 1..NClasses : y_true[i][j] = PredictedBit(i, j)}

\* C17: subset accuracy.  The subset_accuracy returned is the number of rows
\* whose binarized prediction equals the y_true row in every one of the C
\* positions, divided by N.
C17_SubsetAccuracy ==
    (Computed /\ NSamples >= 1) =>
        /\ report.exc = "None"
        /\ report.subset_accuracy # NaN
        /\ report.subset_accuracy[1] * NSamples
               = Cardinality(ExactRows) * report.subset_accuracy[2]

\* C17 witness: a scored batch with a row that matches exactly and a row
\* that matches in some positions only
C17_PartlyMatchingRow ==
    /\ Computed
    /\ ExactRows # {}
    /\ \E i \in (1..NSamples) \ ExactRows :
           \E j \in 1..NClasses : y_true[i][j] = PredictedBit(i, j)

(***************************************************************************)
(* Properties of the training loop, checked under SpecTraining.            *)
(***************************************************************************)
MaxOf(S) == CHOOSE m \in S : \A x \in S : x <= m

\* the validation F1 of epoch e (1-based), as the history recorded it
ValF1 == trainer.val_history.f1

\* the validation metrics of epoch e (1-based), as the history recorded them
ValMetricsOf(e) == [key \in HistoryKeys |-> trainer.val_history[key][e]]

\* the epochs whose best-model step has run: at line 282 the current epoch
\* is in the history already but has not been compared yet
Compared == IF trainer.pc = "best" THEN Len(ValF1) - 1 ELSE Len(ValF1)

\* best_val_f1 as it stood when epoch e began
BestBefore(e) == MaxOf({0} \cup {ValF1[j] : j \in 1..(e - 1)})

Improving == {e \in 1..Compared : ValF1[e] > BestBefore(e)}

WritesOf(name) == SelectSeq(trainer.writes, LAMBDA w : w.filepath = name)

\* C21: best-model tracking.  Once the best-model step of an epoch has run,
\* best_val_f1 is the maximum of 0.0 and every validation F1 seen so far,
\* and it never decreases from one step to the next; best_model.pth has
\* been written once for each epoch whose validation F1 was strictly
\* greater than the best before it, with that epoch's index and validation
\* metrics, and for no other epoch: an epoch that ties the best, or a run
\* whose validation F1 is 0.0 throughout, writes nothing.
C21_BestModelTracking ==
    /\ [](/\ trainer.best_val_f1 = MaxOf({0} \cup {ValF1[e] : e \in 1..Compared})
          /\ Len(WritesOf(best_model)) = Cardinality(Improving)
          /\ {w.epoch + 1 : w \in Range(WritesOf(best_model))} = Improving
          /\ \A w \in Range(WritesOf(best_model)) :
                 /\ w.metrics = ValMetricsOf(w.epoch + 1)
                 /\ w.scheduler_state_dict = w.epoch + 1
          /\ (\A e \in 1..Compared : ValF1[e] = 0) => WritesOf(best_model) = <<>>)
    /\ [][trainer'.best_val_f1 >= trainer.best_val_f1]_vars

\* a finished run of three epochs whose second epoch tied the first and
\* whose third improved on it: best_model.pth was written twice
C21_TieNotSaved ==
    /\ trainer.pc = "done"
    /\ ValF1 = <<5, 5, 10>>
    /\ trainer.best_val_f1 = 10
    /\ Len(WritesOf(best_model)) = 2

\* the statements of the loop body, and those of it before the histories
\* are appended to
LoopBody == {"train", "validate", "scheduler", "history", "best", "regular"}
BeforeHistory == {"train", "validate", "scheduler", "history"}

\* the epochs (counted from 1) that have run to the end of the loop body
Completed ==
    IF trainer.pc \in LoopBody THEN trainer.range_next - 1 ELSE trainer.range_next

\* the epochs whose history step has run
Recorded ==
    IF trainer.pc \in BeforeHistory THEN trainer.range_next - 1 ELSE trainer.range_next

PeriodicWrites ==
    SelectSeq(trainer.writes, LAMBDA w : w.filepath \notin {best_model, final_model})

\* the epochs up to n (counted from 1) that the save interval k selects
Due(n, k) == IF k = 0 THEN {} ELSE {e \in 1..n : e % k = 0}

\* the place of a file within the epoch it is written in
Rank(w) ==
    IF w.filepath = best_model THEN 1 ELSE IF w.filepath = final_model THEN 3 ELSE 2

\* C22: checkpoint schedule.  With E epochs and save interval k, the
\* periodic checkpoints written are exactly checkpoint_epoch_e for the
\* completed epochs e (1-based) with e mod k = 0, each once, within its own
\* epoch (after that epoch's train, validate and scheduler step, holding
\* epoch index e - 1 and that epoch's validation metrics); final_model.pth
\* is written exactly once, with epoch index E - 1 and the test metrics, as
\* the last checkpoint, only after all E epochs and the test evaluation;
\* and every list of the train and validation histories has one entry per
\* epoch recorded.
C22_CheckpointSchedule ==
    LET E == trainer.config.epochs
        k == trainer.config.save_interval
        writes == trainer.writes
    IN  /\ {w.filepath : w \in Range(PeriodicWrites)}
               = {checkpoint_epoch(e) : e \in Due(Completed, k)}
        /\ Len(PeriodicWrites) = Cardinality(Due(Completed, k))
        /\ \A w \in Range(PeriodicWrites) :
               /\ w.filepath = checkpoint_epoch(w.epoch + 1)
               /\ w.scheduler_state_dict = w.epoch + 1
               /\ w.metrics = ValMetricsOf(w.epoch + 1)
               /\ Len(trainer.train_history.f1) >= w.epoch + 1
        /\ \A i, j \in 1..Len(writes) :
               i < j =>
                   \/ writes[i].epoch < writes[j].epoch
                   \/ /\ writes[i].epoch = writes[j].epoch
                      /\ Rank(writes[i]) < Rank(writes[j])
        /\ Len(WritesOf(final_model)) = IF trainer.pc \in {"export", "done"} THEN 1 ELSE 0
        /\ \A w \in Range(WritesOf(final_model)) :
               /\ w = writes[Len(writes)]
               /\ w.epoch = E - 1
               /\ w.metrics = trainer.test_metrics[1]
               /\ Completed = E
               /\ w.scheduler_state_dict = E
        /\ \A key \in HistoryKeys :
               /\ Len(trainer.train_history[key]) = Recorded
               /\ Len(trainer.val_history[key]) = Recorded

\* a finished run of three epochs with save interval two: the checkpoint of
\* epoch 2 and the final model are the periodic and final files written
C22_ThreeEpochsIntervalTwo ==
    /\ trainer.pc = "done"
    /\ trainer.config = [epochs |-> 3, save_interval |-> 2]
    /\ Len(PeriodicWrites) = 1
    /\ PeriodicWrites[1].filepath = checkpoint_epoch(2)
    /\ trainer.writes[Len(trainer.writes)].filepath = final_model
    /\ Len(trainer.train_history.loss) = 3

=============================================================================
